---- MODULE Spec2Model ----
(***************************************************************************)
(* Model of the allocation engine of selecao-celiff (src/src/selection.py):*)
(* compute_quota, draw_for_category, redistribute_shortfalls, run_lottery  *)
(* and run_lottery_per_turma.                                              *)
(*                                                                         *)
(* A candidate list is the state variable cands, a sequence of records.    *)
(* The lists the engine builds hold references to those records; they are  *)
(* modelled as sequences of positions into cands, so that two records with *)
(* equal fields stay two candidates.  Python compares Candidate objects    *)
(* (a dataclass) by their fields: CandEq.                                  *)
(*                                                                         *)
(* Percentages are binary floating point numbers rounded to nearest, ties  *)
(* to even, with a mantissa of MantBits bits in place of the 53 bits of a  *)
(* Python float; on the inputs enumerated here the source computes the     *)
(* same quotas.  random.Random is a small linear congruential generator    *)
(* with CPython's shuffle and sample algorithms on top of it, and the      *)
(* SHA-256 seed of a turma is a small mix of the seed and the turma name.  *)
(*                                                                         *)
(* Each call is one action: Init draws the arguments, a Call action runs   *)
(* the function on them and stores what it returns.  An intermediate value *)
(* of a function is handed to a helper operator as an argument instead of  *)
(* being named in a LET, so that it is evaluated once.                     *)
(***************************************************************************)
EXTENDS Integers, Sequences, FiniteSets, TLC

VARIABLES por_turma, cands, vagas, vagas_por_turma, pct, seed,
          op, cat, raised, quotas,
          pre_selected, pre_waiting, per_cat_selected, per_cat_waiting,
          aprovados, espera, aprovados2, espera2, results, rng

vars == <<por_turma, cands, vagas, vagas_por_turma, pct, seed,
          op, cat, raised, quotas,
          pre_selected, pre_waiting, per_cat_selected, per_cat_waiting,
          aprovados, espera, aprovados2, espera2, results, rng>>

(* ------------------------------ bounds -------------------------------- *)
MaxCands == 3
MaxId == 2
MaxVagas == 3
NumSeeds == 2
MaxCandsT == 2
MaxIdT == 1
MaxVagasT == 1
MantBits == 13
MaxCandsP == 2
MaxIdP == 2
MaxVagasP == 4

(* ----------------------------- constants ------------------------------ *)
PRIORITY == <<"Aluno", "Servidor", "Comunidade Externa">>

Cats == {PRIORITY[i] : i \in 1..Len(PRIORITY)}

\* Optional[str] turma: the value None
NoTurma == "<None>"

(* ------------------------------ helpers ------------------------------- *)
Max(a, b) == IF a >= b THEN a ELSE b

Min(a, b) == IF a <= b THEN a ELSE b

Range(s) == {s[i] : i \in 1..Len(s)}

RECURSIVE SumSeq(_)
SumSeq(s) == IF s = <<>> THEN 0 ELSE s[1] + SumSeq(Tail(s))

\* sum(d[cat] for cat in PRIORITY)
SumCats(d) == SumSeq([i \in 1..Len(PRIORITY) |-> d[PRIORITY[i]]])

(* ------------------------------- float -------------------------------- *)
\* A float is <<m, e>>, the number m * 2^e, with 2^(MantBits-1) <= |m| < 2^MantBits
\* or m = 0: IEEE 754 binary floating point, rounded to nearest, ties to even,
\* with the mantissa of 53 bits shortened to MantBits.
FloatZero == <<0, 0>>

\* the number of low bits n >= 0 has beyond MantBits
RECURSIVE ExcessBits(_)
ExcessBits(n) == IF n < 2^MantBits THEN 0 ELSE 1 + ExcessBits(n \div 2)

\* n * 2^e for n >= 2^MantBits, with k = ExcessBits(n): round to nearest, ties to even
RoundShift(n, e, k) ==
    LET q  == n \div 2^k
        up == IF 2 * (n % 2^k) > 2^k \/ (2 * (n % 2^k) = 2^k /\ q % 2 = 1) THEN 1 ELSE 0
    IN  IF q + up = 2^MantBits THEN <<2^(MantBits - 1), e + k + 1>> ELSE <<q + up, e + k>>

\* the float nearest to n * 2^e, n >= 0
RECURSIVE RoundPos(_, _)
RoundPos(n, e) ==
    IF n = 0 THEN FloatZero
    ELSE IF n < 2^(MantBits - 1) THEN RoundPos(2 * n, e - 1)
    ELSE IF n < 2^MantBits THEN <<n, e>>
    ELSE RoundShift(n, e, ExcessBits(n))

FloatNeg(x) == <<0 - x[1], x[2]>>

\* the float nearest to n * 2^e
Round(n, e) == IF n < 0 THEN FloatNeg(RoundPos(0 - n, e)) ELSE RoundPos(n, e)

\* float(n)
FloatOfInt(n) == Round(n, 0)

\* max(0.0, x)
FloatMax0(x) == IF x[1] > 0 THEN x ELSE FloatZero

\* x > 0, the negation of "x <= 0"
FloatPos(x) == x[1] > 0

\* x + y; a term more than MantBits + 2 binary places below the other is below
\* half a unit in its last place and leaves it unchanged
FloatAdd(x, y) ==
    IF x[1] = 0 THEN y
    ELSE IF y[1] = 0 THEN x
    ELSE IF x[2] - y[2] > MantBits + 2 THEN x
    ELSE IF y[2] - x[2] > MantBits + 2 THEN y
    ELSE IF x[2] >= y[2] THEN Round(x[1] * 2^(x[2] - y[2]) + y[1], y[2])
    ELSE Round(x[1] + y[1] * 2^(y[2] - x[2]), x[2])

\* x / y for x >= 0 and y > 0: the quotient of the mantissas to MantBits + 1 places,
\* with one more bit that says whether the division left a remainder
FloatDivPos(x, y) ==
    LET n == x[1] * 2^(MantBits + 1)
    IN  RoundPos(2 * (n \div y[1]) + (IF n % y[1] = 0 THEN 0 ELSE 1),
                 x[2] - y[2] - MantBits - 2)

\* x / y for y > 0
FloatDiv(x, y) == IF x[1] < 0 THEN FloatNeg(FloatDivPos(FloatNeg(x), y)) ELSE FloatDivPos(x, y)

\* math.floor(x)
FloatFloor(x) ==
    IF x[2] >= 0 THEN x[1] * 2^x[2]
    ELSE IF 0 - x[2] > 2 * MantBits THEN (IF x[1] < 0 THEN 0 - 1 ELSE 0)
    ELSE x[1] \div 2^(0 - x[2])

\* int(math.floor(v * x)): the product is rounded to a float before the floor
FloorMul(v, x) == FloatFloor(Round(v * x[1], x[2]))

\* Candidate.__eq__ of the dataclass: field by field
CandEq(i, j) == cands[i] = cands[j]

(* --------------------------- random.Random ---------------------------- *)
\* a generator shared between calls and not seeded again: it goes on from the
\* state the previous call left
NewRandomShared(s) == rng

\* random.Random(seed): the generator state after seeding
NewRandom(s) == (s * 11 + 5) % 31

\* rng._randbelow(n): <<value in 0..n-1, next generator state>>
RandBelow(r, n) ==
    LET r2 == (r * 7 + 3) % 31
    IN  <<(r2 \div 2) % n, r2>>

\* rng.shuffle(x): for i in reversed(range(1, len(x))): swap x[i], x[randbelow(i+1)]
RECURSIVE ShuffleFrom(_, _, _)
ShuffleFrom(r, x, i) ==
    IF i < 2 THEN [list |-> x, rng |-> r]
    ELSE LET rb == RandBelow(r, i)
             j  == rb[1] + 1
             y  == [x EXCEPT ![i] = x[j], ![j] = x[i]]
         IN  ShuffleFrom(rb[2], y, i - 1)

Shuffle(r, x) == ShuffleFrom(r, x, Len(x))

\* rng.sample(population, k), pool branch (population no longer than 21)
RECURSIVE SampleFrom(_, _, _, _, _)
SampleFrom(r, pool, n, k, i) ==
    IF i >= k THEN [list |-> <<>>, rng |-> r]
    ELSE LET rb   == RandBelow(r, n - i)
             j    == rb[1] + 1
             rest == SampleFrom(rb[2], [pool EXCEPT ![j] = pool[n - i]], n, k, i + 1)
         IN  [list |-> <<pool[j]>> \o rest.list, rng |-> rest.rng]

Sample(r, population, k) == SampleFrom(r, population, Len(population), k, 0)

(* ------------------------------ engine -------------------------------- *)
\* groups[c.categoria].append(c) for c in candidates
partition_by_category(candidates) ==
    [c \in Cats |-> SelectSeq(candidates, LAMBDA i : cands[i].categoria = c)]

RECURSIVE DistributeRemainder(_, _, _)
DistributeRemainder(base, remainder, i) ==
    IF remainder > 0
    THEN LET c == PRIORITY[(i % Len(PRIORITY)) + 1]
         IN  DistributeRemainder([base EXCEPT ![c] = @ + 1], remainder - 1, i + 1)
    ELSE base

compute_quota(v, pct_by_cat) ==
    LET base      == [c \in Cats |-> FloorMul(v, FloatMax0(pct_by_cat[c]))]
        allocated == SumCats(base)
        remainder == v - allocated
    IN  DistributeRemainder(base, remainder, 0)

\* "shuffled = group.copy(); rng.shuffle(shuffled); return shuffled, []"
DrawEverybody(sh) == [selected |-> sh.list, waiting |-> <<>>, rng |-> sh.rng]

\* "return selected, remaining" after rng.shuffle(remaining)
DrawSelected(selected, sh) == [selected |-> selected, waiting |-> sh.list, rng |-> sh.rng]

\* "remaining = [c for c in group if c not in selected]; rng.shuffle(remaining)"
DrawRemaining(group, sm) ==
    DrawSelected(sm.list,
                 Shuffle(sm.rng,
                         SelectSeq(group,
                                   LAMBDA c : ~ \E j \in 1..Len(sm.list) :
                                                    CandEq(c, sm.list[j]))))

draw_for_category(r, group, k) ==
    IF k <= 0 \/ group = <<>>
    THEN [selected |-> <<>>, waiting |-> group, rng |-> r]
    ELSE IF k >= Len(group)
    THEN DrawEverybody(Shuffle(r, group))
    ELSE DrawRemaining(group, Sample(r, group, k))

\* the loop promoting waitlist[0] without removing it from the waitlist
RECURSIVE FillFromWaitlistsNoPop(_, _, _, _)
FillFromWaitlistsNoPop(selected, waiting, total_deficit, i) ==
    IF i > Len(PRIORITY) \/ total_deficit = 0
    THEN [selected |-> selected, waiting |-> waiting]
    ELSE LET c == PRIORITY[i]
             n == Min(Len(waiting[c]), total_deficit)
         IN  FillFromWaitlistsNoPop([selected EXCEPT ![c] = @ \o SubSeq(waiting[c], 1, n)],
                                    waiting, total_deficit - n, i + 1)

\* the loop run as "for cat in reversed(PRIORITY)"
RECURSIVE FillFromWaitlistsReversed(_, _, _, _)
FillFromWaitlistsReversed(selected, waiting, total_deficit, i) ==
    IF i > Len(PRIORITY) \/ total_deficit = 0
    THEN [selected |-> selected, waiting |-> waiting]
    ELSE LET c == PRIORITY[Len(PRIORITY) + 1 - i]
         IN  IF waiting[c] # <<>>
             THEN FillFromWaitlistsReversed(
                      [selected EXCEPT ![c] = Append(@, Head(waiting[c]))],
                      [waiting EXCEPT ![c] = Tail(@)],
                      total_deficit - 1, i)
             ELSE FillFromWaitlistsReversed(selected, waiting, total_deficit, i + 1)

\* the loop "for cat in PRIORITY: ... while waitlist and total_deficit > 0: pop(0)"
RECURSIVE FillFromWaitlists(_, _, _, _)
FillFromWaitlists(selected, waiting, total_deficit, i) ==
    IF i > Len(PRIORITY) \/ total_deficit = 0
    THEN [selected |-> selected, waiting |-> waiting]
    ELSE LET c == PRIORITY[i]
         IN  IF waiting[c] # <<>>
             THEN FillFromWaitlists([selected EXCEPT ![c] = Append(@, Head(waiting[c]))],
                                    [waiting EXCEPT ![c] = Tail(@)],
                                    total_deficit - 1, i)
             ELSE FillFromWaitlists(selected, waiting, total_deficit, i + 1)

redistribute_shortfalls(selected, waiting, quota) ==
    LET deficit_by_cat == [c \in Cats |-> Max(0, quota[c] - Len(selected[c]))]
        total_deficit  == SumCats(deficit_by_cat)
    IN  IF total_deficit = 0
        THEN [selected |-> selected, waiting |-> waiting]
        ELSE FillFromWaitlists(selected, waiting, total_deficit, 1)

\* "for cat in PRIORITY: selected, waiting = draw_for_category(rng, groups[cat], quotas[cat])"
RECURSIVE DrawAll(_, _, _, _, _, _)
\* "per_cat_selected[cat] = selected; per_cat_waiting[cat] = waiting", then the next category
DrawAllStore(d, groups, quota, selected, waiting, i) ==
    DrawAll(d.rng, groups, quota,
            [selected EXCEPT ![PRIORITY[i]] = d.selected],
            [waiting EXCEPT ![PRIORITY[i]] = d.waiting], i + 1)

DrawAll(r, groups, quota, selected, waiting, i) ==
    IF i > Len(PRIORITY)
    THEN [selected |-> selected, waiting |-> waiting, rng |-> r]
    ELSE DrawAllStore(draw_for_category(r, groups[PRIORITY[i]], quota[PRIORITY[i]]),
                      groups, quota, selected, waiting, i)

\* "for cat in PRIORITY: out.extend(per_cat[cat])"
RECURSIVE ConcatCats(_, _)
ConcatCats(per_cat, i) ==
    IF i > Len(PRIORITY) THEN <<>> ELSE per_cat[PRIORITY[i]] \o ConcatCats(per_cat, i + 1)

\* aprovados[:vagas], vagas > 0
Truncate(list, v) == SubSeq(list, 1, Min(v, Len(list)))

EmptyPerCat == [c \in Cats |-> <<>>]

ZeroQuota == [c \in Cats |-> 0]

\* the outcome of a call that returns [], [] early or raises ValueError
NoDraw(err, r) ==
    [raised |-> err, aprovados |-> <<>>, espera |-> <<>>, quotas |-> ZeroQuota,
     pre_selected |-> EmptyPerCat, pre_waiting |-> EmptyPerCat,
     selected |-> EmptyPerCat, waiting |-> EmptyPerCat, rng |-> r]

\* the percentages run_lottery hands to compute_quota: each divided by total_pct
LotteryPcts(pct_aluno, pct_servidor, pct_comunidade) ==
    LET total_pct == FloatAdd(FloatAdd(pct_aluno, pct_servidor), pct_comunidade)
    IN  [c \in Cats |-> IF c = "Aluno" THEN FloatDiv(pct_aluno, total_pct)
                        ELSE IF c = "Servidor" THEN FloatDiv(pct_servidor, total_pct)
                        ELSE FloatDiv(pct_comunidade, total_pct)]

\* lines 188-203: the admitted and the waitlisted list out of the per-category lists
LotteryResult(quota, drawn, red, v) ==
    [raised |-> FALSE,
     aprovados |-> Truncate(ConcatCats(red.selected, 1), v),
     espera |-> ConcatCats(red.waiting, 1),
     quotas |-> quota,
     pre_selected |-> drawn.selected, pre_waiting |-> drawn.waiting,
     selected |-> red.selected, waiting |-> red.waiting,
     rng |-> drawn.rng]

\* line 186
LotteryRedistribute(quota, drawn, v) ==
    LotteryResult(quota, drawn,
                  redistribute_shortfalls(drawn.selected, drawn.waiting, quota), v)

\* lines 163-183
LotteryDraw(candidates, quota, v, s) ==
    LotteryRedistribute(quota,
                        DrawAll(NewRandom(s), partition_by_category(candidates), quota,
                                EmptyPerCat, EmptyPerCat, 1),
                        v)

run_lottery(candidates, v, pct_aluno, pct_servidor, pct_comunidade, s) ==
    IF v <= 0 THEN NoDraw(FALSE, rng)
    ELSE IF ~ FloatPos(FloatAdd(FloatAdd(pct_aluno, pct_servidor), pct_comunidade))
    THEN NoDraw(TRUE, rng)
    ELSE LotteryDraw(candidates,
                     compute_quota(v, LotteryPcts(pct_aluno, pct_servidor, pct_comunidade)),
                     v, s)

(* ------------------------- sorteio por turma -------------------------- *)
\* t = c.turma or ""
TurmaKey(i) == IF cands[i].turma = NoTurma THEN "" ELSE cands[i].turma

\* the keys of the dict turmas, in insertion order
RECURSIVE TurmaOrder(_, _)
TurmaOrder(candidates, seen) ==
    IF candidates = <<>> THEN <<>>
    ELSE LET t == TurmaKey(Head(candidates))
         IN  IF t \in seen THEN TurmaOrder(Tail(candidates), seen)
             ELSE <<t>> \o TurmaOrder(Tail(candidates), seen \cup {t})

\* turmas[t]
TurmaCands(candidates, t) == SelectSeq(candidates, LAMBDA i : TurmaKey(i) = t)

\* sample_by_turma.get(turma, {}) read through the "[Vaga]" flags: the categories whose
\* flag is trueish; a missing row or a missing column counts as "true"
SampleVaga(candidates, t) ==
    LET rows == SelectSeq(candidates, LAMBDA i : cands[i].turma = t)
    IN  IF rows = <<>> THEN Cats ELSE cands[Head(rows)].vaga

\* _allowed_cats_for_turma: "allowed or PRIORITY.copy()"
_allowed_cats_for_turma(sample_vaga) == IF sample_vaga = {} THEN Cats ELSE sample_vaga

\* sum(max(0.0, p) for p in pcts.values()): added from the left, in the order of the dict
RECURSIVE SumMax0(_, _, _)
SumMax0(pcts, i, acc) ==
    IF i > Len(PRIORITY) THEN acc
    ELSE SumMax0(pcts, i + 1, FloatAdd(acc, FloatMax0(pcts[PRIORITY[i]])))

_normalize_pcts(pcts) ==
    LET total == SumMax0(pcts, 1, FloatZero)
    IN  IF ~ FloatPos(total) THEN [raised |-> TRUE, pcts |-> pcts]
        ELSE [raised |-> FALSE, pcts |-> [c \in Cats |-> FloatDiv(FloatMax0(pcts[c]), total)]]

\* int(sha256(f"{seed}|{turma}").hexdigest()[:16], 16): a mix of the seed and the name
TurmaSeed(s, turma) ==
    LET code == IF turma = "" THEN 3 ELSE IF turma = "X" THEN 8 ELSE 13
    IN  (s * 17 + code * 5 + s * code) % 29

\* vagas_por_turma.get(turma, 1): one slot for a turma without configuration
VagasOfTurmaDefaultOne(vpt, t) == IF t \in DOMAIN vpt THEN vpt[t] ELSE 1

\* vagas_por_turma.get(turma, 0)
VagasOfTurma(vpt, t) == IF t \in DOMAIN vpt THEN vpt[t] ELSE 0

\* lines 310-319
TurmaLists(red, v) ==
    [raised |-> FALSE,
     aprovados |-> Truncate(ConcatCats(red.selected, 1), v),
     espera |-> ConcatCats(red.waiting, 1)]

\* line 308
TurmaRedistribute(drawn, quota, v) ==
    TurmaLists(redistribute_shortfalls(drawn.selected, drawn.waiting, quota), v)

\* lines 291-306
TurmaDraw(cands_allowed, quota, v, rng_seed) ==
    TurmaRedistribute(DrawAll(NewRandom(rng_seed), partition_by_category(cands_allowed),
                              quota, EmptyPerCat, EmptyPerCat, 1),
                      quota, v)

\* lines 288-298
TurmaQuota(cands_allowed, pcts_turma, v, rng_seed) ==
    IF pcts_turma.raised
    THEN [raised |-> TRUE, aprovados |-> <<>>, espera |-> <<>>]
    ELSE TurmaDraw(cands_allowed, compute_quota(v, pcts_turma.pcts), v, rng_seed)

\* lines 282-289
TurmaAllowed(candidates, t, allowed, pcts, v, s) ==
    TurmaQuota(SelectSeq(TurmaCands(candidates, t), LAMBDA i : cands[i].categoria \in allowed),
               _normalize_pcts([c \in Cats |-> IF c \in allowed THEN pcts[c] ELSE FloatZero]),
               v, TurmaSeed(s, t))

\* the body of "for turma, cands in turmas.items()" for one turma
TurmaResult(candidates, t, vpt, pcts, s) ==
    IF VagasOfTurma(vpt, t) <= 0
    THEN [raised |-> FALSE, aprovados |-> <<>>, espera |-> <<>>]
    ELSE TurmaAllowed(candidates, t,
                      _allowed_cats_for_turma(SampleVaga(candidates, t)),
                      pcts, VagasOfTurma(vpt, t), s)

NoResults == [t \in {} |-> <<>>]

\* the loop over turmas.items(): an exception in one turma ends the call
RECURSIVE TurmaLoop(_, _, _, _, _, _)
\* "results[turma] = (...)", then the next turma
TurmaLoopStore(r, order, candidates, vpt, pcts, s, acc) ==
    IF r.raised THEN [raised |-> TRUE, results |-> NoResults]
    ELSE TurmaLoop(Tail(order), candidates, vpt, pcts, s,
                   [k \in DOMAIN acc \cup {Head(order)} |->
                       IF k = Head(order) THEN <<r.aprovados, r.espera>> ELSE acc[k]])

TurmaLoop(order, candidates, vpt, pcts, s, acc) ==
    IF order = <<>> THEN [raised |-> FALSE, results |-> acc]
    ELSE TurmaLoopStore(TurmaResult(candidates, Head(order), vpt, pcts, s),
                        order, candidates, vpt, pcts, s, acc)

\* lines 277-321, after the global percentages are normalised
TurmaStart(candidates, vpt, pcts, s) ==
    IF pcts.raised THEN [raised |-> TRUE, results |-> NoResults]
    ELSE TurmaLoop(TurmaOrder(candidates, {}), candidates, vpt, pcts.pcts, s, NoResults)

run_lottery_per_turma(candidates, vpt, pct_aluno, pct_servidor, pct_comunidade, s) ==
    TurmaStart(candidates, vpt,
               _normalize_pcts([c \in Cats |-> IF c = "Aluno" THEN pct_aluno
                                               ELSE IF c = "Servidor" THEN pct_servidor
                                               ELSE pct_comunidade]),
               s)

(* ------------------- single pool: inputs and calls -------------------- *)
SeqsUpTo(S, n) == UNION {[1..m -> S] : m \in 0..n}

\* rows without the "[Vaga]" columns: every flag defaults to "true"
CandValues == [id : 1..MaxId, categoria : Cats, turma : {NoTurma}, vaga : {Cats}]

\* pct_aluno, pct_servidor, pct_comunidade as whole numbers: the engine normalises them
PctChoices == {<<5, 3, 2>>, <<6, 2, 2>>, <<1, 1, 0>>, <<0, 0, 1>>, <<2, -1, 0>>, <<0, 0, 0>>}

NoVagasPorTurma == [t \in {} |-> 0]

AllOf(list) == [i \in 1..Len(list) |-> i]

PctSum == pct[1] + pct[2] + pct[3]

\* rows of the real CSV: a turma name and the "[Vaga]" flags of the turma
RealValues == [id : 1..MaxIdT, categoria : Cats, turma : {"", "X"},
               vaga : {Cats, {"Servidor"}, {}}]

\* rows of the simple CSV read without a turma column
SimpleValues == [id : 1..MaxIdT, categoria : Cats, turma : {NoTurma}, vaga : {Cats}]

PctChoicesT == {<<5, 3, 2>>, <<1, 0, 0>>, <<2, -1, 0>>, <<0, 0, 0>>}

VagasPorTurmaChoices == UNION {[D -> -1..MaxVagasT] : D \in SUBSET {"", "X"}}

NoCall ==
    /\ op = "init"
    /\ cat = "Aluno"
    /\ raised = FALSE
    /\ quotas = ZeroQuota
    /\ pre_selected = EmptyPerCat
    /\ pre_waiting = EmptyPerCat
    /\ per_cat_selected = EmptyPerCat
    /\ per_cat_waiting = EmptyPerCat
    /\ aprovados = <<>>
    /\ espera = <<>>
    /\ aprovados2 = <<>>
    /\ espera2 = <<>>
    /\ results = NoResults
    /\ rng = 0

InitSingle ==
    /\ por_turma = FALSE
    /\ cands \in SeqsUpTo(CandValues, MaxCands)
    /\ vagas \in -1..MaxVagas
    /\ vagas_por_turma = NoVagasPorTurma
    /\ pct \in PctChoices
    /\ seed \in 0..(NumSeeds - 1)
    /\ NoCall

InitGrouped ==
    /\ por_turma = TRUE
    /\ cands \in SeqsUpTo(RealValues, MaxCandsT) \cup SeqsUpTo(SimpleValues, MaxCandsT)
    /\ vagas = 0
    /\ vagas_por_turma \in VagasPorTurmaChoices
    /\ pct \in PctChoicesT
    /\ seed \in 0..(NumSeeds - 1)
    /\ NoCall

\* rows of a turma that offers slots to two of the three categories
PairValues == [id : 1..MaxIdP, categoria : Cats, turma : {"X"}, vaga : {{"Aluno", "Servidor"}}]

PctChoicesP == {<<1, 3, 1>>, <<5, 3, 2>>}

InitPair ==
    /\ por_turma = TRUE
    /\ cands \in SeqsUpTo(PairValues, MaxCandsP)
    /\ vagas = 0
    /\ vagas_por_turma \in [{"X"} -> 1..MaxVagasP]
    /\ pct \in PctChoicesP
    /\ seed \in 0..(NumSeeds - 1)
    /\ NoCall

Init == InitSingle \/ InitGrouped \/ InitPair

\* the arguments of the call, as the command line hands them over
PctAluno == FloatOfInt(pct[1])

PctServidor == FloatOfInt(pct[2])

PctComunidade == FloatOfInt(pct[3])

\* quotas as run_lottery computes them: the percentages over their sum, then compute_quota
CallComputeQuota ==
    /\ ~ por_turma
    /\ op = "init"
    /\ PctSum > 0
    /\ op' = "compute_quota"
    /\ quotas' = compute_quota(vagas, LotteryPcts(PctAluno, PctServidor, PctComunidade))
    /\ UNCHANGED <<por_turma, cands, vagas, vagas_por_turma, pct, seed, cat, raised,
                   pre_selected, pre_waiting, per_cat_selected, per_cat_waiting,
                   aprovados, espera, aprovados2, espera2, results, rng>>

ReturnDraw(c, d) ==
    /\ cat' = c
    /\ per_cat_selected' = [EmptyPerCat EXCEPT ![c] = d.selected]
    /\ per_cat_waiting' = [EmptyPerCat EXCEPT ![c] = d.waiting]
    /\ rng' = d.rng

\* draw_for_category on the pool of one category, target k = vagas
CallDrawForCategory ==
    /\ ~ por_turma
    /\ op = "init"
    /\ \E c \in Cats :
         ReturnDraw(c, draw_for_category(NewRandom(seed),
                                         partition_by_category(AllOf(cands))[c], vagas))
    /\ op' = "draw_for_category"
    /\ UNCHANGED <<por_turma, cands, vagas, vagas_por_turma, pct, seed, raised, quotas,
                   pre_selected, pre_waiting, aprovados, espera, aprovados2, espera2, results>>

ReturnLottery(r) ==
    /\ raised' = r.raised
    /\ quotas' = r.quotas
    /\ pre_selected' = r.pre_selected
    /\ pre_waiting' = r.pre_waiting
    /\ per_cat_selected' = r.selected
    /\ per_cat_waiting' = r.waiting
    /\ aprovados' = r.aprovados
    /\ espera' = r.espera
    /\ rng' = r.rng

\* redistribute_shortfalls on the per-category draws and quotas of run_lottery
\* (lines 163-186)
CallRedistributeShortfalls ==
    /\ ~ por_turma
    /\ op = "init"
    /\ vagas > 0
    /\ PctSum > 0
    /\ ReturnLottery([run_lottery(AllOf(cands), vagas, PctAluno, PctServidor, PctComunidade,
                                  seed)
                         EXCEPT !.aprovados = <<>>, !.espera = <<>>])
    /\ op' = "redistribute_shortfalls"
    /\ UNCHANGED <<por_turma, cands, vagas, vagas_por_turma, pct, seed, cat,
                   aprovados2, espera2, results>>

CallRunLottery ==
    /\ ~ por_turma
    /\ op = "init"
    /\ ReturnLottery(run_lottery(AllOf(cands), vagas, PctAluno, PctServidor, PctComunidade,
                                 seed))
    /\ op' = "run_lottery"
    /\ UNCHANGED <<por_turma, cands, vagas, vagas_por_turma, pct, seed, cat,
                   aprovados2, espera2, results>>

ReturnLotteryAgain(r) ==
    /\ aprovados2' = r.aprovados
    /\ espera2' = r.espera
    /\ rng' = r.rng

\* the second call of test_run_lottery_determinism: same arguments again
CallRunLotteryAgain ==
    /\ op = "run_lottery"
    /\ ~ raised
    /\ ReturnLotteryAgain(run_lottery(AllOf(cands), vagas, PctAluno, PctServidor,
                                      PctComunidade, seed))
    /\ op' = "run_lottery_again"
    /\ UNCHANGED <<por_turma, cands, vagas, vagas_por_turma, pct, seed, cat, raised, quotas,
                   pre_selected, pre_waiting, per_cat_selected, per_cat_waiting,
                   aprovados, espera, results>>

ReturnPerTurma(r) ==
    /\ raised' = r.raised
    /\ results' = r.results

CallRunLotteryPerTurma ==
    /\ por_turma
    /\ op = "init"
    /\ ReturnPerTurma(run_lottery_per_turma(AllOf(cands), vagas_por_turma, PctAluno,
                                            PctServidor, PctComunidade, seed))
    /\ op' = "run_lottery_per_turma"
    /\ UNCHANGED <<por_turma, cands, vagas, vagas_por_turma, pct, seed, cat, quotas,
                   pre_selected, pre_waiting, per_cat_selected, per_cat_waiting,
                   aprovados, espera, aprovados2, espera2, rng>>

Next ==
    \/ CallComputeQuota
    \/ CallDrawForCategory
    \/ CallRedistributeShortfalls
    \/ CallRunLottery
    \/ CallRunLotteryAgain
    \/ CallRunLotteryPerTurma

Spec == Init /\ [][Next]_vars

(* ------------------------------ claims -------------------------------- *)
NoDup(s) == \A i, j \in 1..Len(s) : i # j => s[i] # s[j]

Disjoint(s, t) == Range(s) \cap Range(t) = {}

Positions == 1..Len(cands)

\* C1: for every slot count >= 0 and percentages whose sum is > 0, the quotas
\* run_lottery computes are each >= 0 and sum to exactly the slot count.
C1_QuotasSumToSlots ==
    (op = "compute_quota" /\ vagas >= 0 /\ PctSum > 0) =>
        /\ \A c \in Cats : quotas[c] >= 0
        /\ SumCats(quotas) = vagas

\* C2: run_lottery loses no candidate: every position of the input list is in
\* the admitted or in the waitlisted list, and the two lengths add up to the
\* number of input candidates.  (Stated for slot counts > 0: with 0 slots the
\* first guard of run_lottery returns two empty lists.)
C2_NoCandidateLost ==
    (op = "run_lottery" /\ vagas > 0 /\ PctSum > 0) =>
        /\ Range(aprovados) \cup Range(espera) = Positions
        /\ Len(aprovados) + Len(espera) = Len(cands)

\* C3: in the result of run_lottery, and of every turma of
\* run_lottery_per_turma, no candidate is both admitted and waitlisted and no
\* candidate appears twice within a list.
C3_NoDoubleAdmission ==
    /\ op = "run_lottery" =>
          NoDup(aprovados) /\ NoDup(espera) /\ Disjoint(aprovados, espera)
    /\ op = "run_lottery_per_turma" =>
          \A t \in DOMAIN results :
              NoDup(results[t][1]) /\ NoDup(results[t][2])
                  /\ Disjoint(results[t][1], results[t][2])

\* a run in which the draw left a waitlist and the redistribution promoted from it
C3_Witness ==
    /\ op = "run_lottery"
    /\ per_cat_selected # pre_selected
    /\ Len(aprovados) >= 2
    /\ espera # <<>>

\* C4: with n candidates and s > 0 slots run_lottery admits exactly min(s, n)
\* candidates, and when n <= s every candidate is admitted and nobody waits.
C4_AdmitsMinSlotsCandidates ==
    (op = "run_lottery" /\ vagas > 0 /\ PctSum > 0) =>
        /\ Len(aprovados) = Min(vagas, Len(cands))
        /\ Len(cands) <= vagas => (Range(aprovados) = Positions /\ espera = <<>>)

Promoted(c) == Len(per_cat_selected[c]) - Len(pre_selected[c])

\* C6: redistribute_shortfalls promotes from the waitlist of a category only
\* when the waitlists of all higher-priority categories are empty: if category
\* j got promotions (holds more winners than its quota), the waitlist of every
\* category i before j is empty after the call.
C6_PriorityOrder ==
    op = "redistribute_shortfalls" =>
        \A i, j \in 1..Len(PRIORITY) :
            (i < j /\ (Promoted(PRIORITY[j]) > 0
                         \/ Len(per_cat_selected[PRIORITY[j]]) > quotas[PRIORITY[j]]))
                => per_cat_waiting[PRIORITY[i]] = <<>>

\* Aluno is short of its quota, the slot goes to a waiting Servidor, and the
\* waiting Comunidade Externa candidate is not promoted
C6_Witness ==
    /\ op = "redistribute_shortfalls"
    /\ Len(pre_selected["Aluno"]) < quotas["Aluno"]
    /\ Promoted("Servidor") > 0
    /\ Promoted("Comunidade Externa") = 0
    /\ per_cat_waiting["Comunidade Externa"] # <<>>

\* C7: draw_for_category on a pool of n records with target k >= 0 returns
\* |winners| = min(k, n), |waitlist| = n - |winners|, and every position of the
\* pool is in exactly one of the two lists.
C7_DrawPartitionsPool ==
    (op = "draw_for_category" /\ vagas >= 0) =>
        LET pool == partition_by_category(AllOf(cands))[cat]
            win  == per_cat_selected[cat]
            wait == per_cat_waiting[cat]
        IN  /\ Len(win) = Min(vagas, Len(pool))
            /\ Len(wait) = Len(pool) - Len(win)
            /\ NoDup(win) /\ NoDup(wait) /\ Disjoint(win, wait)
            /\ Range(win) \cup Range(wait) = Range(pool)

\* the turmas of the call: the keys of the dict turmas
TurmaKeys == {TurmaKey(i) : i \in Positions}

\* the candidate list without the candidates of turma t
WithoutTurma(t) == SelectSeq(AllOf(cands), LAMBDA i : TurmaKey(i) # t)

PerTurma(candidates, vpt) ==
    run_lottery_per_turma(candidates, vpt, PctAluno, PctServidor, PctComunidade, seed)

\* C8: a turma that has candidates and whose slot count is 0, negative or
\* missing gets (empty, empty) and causes no error: the call raises exactly
\* when it raises without that turma's candidates, and otherwise returns a
\* result for every turma.
C8_NoSlotsEmptyResult ==
    op = "run_lottery_per_turma" =>
        \A t \in TurmaKeys :
            (t \notin DOMAIN vagas_por_turma \/ vagas_por_turma[t] <= 0) =>
                /\ raised = PerTurma(WithoutTurma(t), vagas_por_turma).raised
                /\ ~ raised => /\ DOMAIN results = TurmaKeys
                               /\ results[t] = << <<>>, <<>> >>

\* one turma without slots next to a turma whose lottery admitted somebody
C8_Witness ==
    /\ op = "run_lottery_per_turma"
    /\ ~ raised
    /\ \E t, u \in TurmaKeys :
          /\ t \notin DOMAIN vagas_por_turma
          /\ results[u][1] # <<>>

\* C9: the result of a turma is the same whatever the other turmas hold: it
\* equals the result of the call on that turma's candidates and slot count alone.
C9_GroupIsolation ==
    op = "run_lottery_per_turma" =>
        \A t \in TurmaKeys :
            LET alone == PerTurma(TurmaCands(AllOf(cands), t),
                                  [k \in DOMAIN vagas_por_turma \cap {t} |-> vagas_por_turma[k]])
            IN  /\ raised = alone.raised
                /\ ~ raised => results[t] = alone.results[t]

\* C10: for a turma with slots > 0, its candidates of a disallowed category are
\* in neither list, its candidates of an allowed category are in exactly one
\* of the two lists, and no candidate of another turma is in either.
C10_AllowedCandidatesPartitioned ==
    (op = "run_lottery_per_turma" /\ ~ raised) =>
        \A t \in TurmaKeys :
            (t \in DOMAIN vagas_por_turma /\ vagas_por_turma[t] > 0) =>
                LET allowed == _allowed_cats_for_turma(SampleVaga(AllOf(cands), t))
                    adm     == results[t][1]
                    wait    == results[t][2]
                IN  /\ NoDup(adm) /\ NoDup(wait) /\ Disjoint(adm, wait)
                    /\ Range(adm) \cup Range(wait) =
                          {i \in Positions : TurmaKey(i) = t /\ cands[i].categoria \in allowed}

\* the percentages of turma t: the global shares, zeroed for the categories the
\* turma does not offer and normalised again
PctsOfTurma(t) ==
    _normalize_pcts([c \in Cats |->
        IF c \in _allowed_cats_for_turma(SampleVaga(AllOf(cands), t))
        THEN _normalize_pcts([k \in Cats |-> IF k = "Aluno" THEN PctAluno
                                             ELSE IF k = "Servidor" THEN PctServidor
                                             ELSE PctComunidade]).pcts[c]
        ELSE FloatZero]).pcts

\* the candidates of turma t whose category the turma offers
AllowedOfTurma(t) ==
    SelectSeq(TurmaCands(AllOf(cands), t),
              LAMBDA i : cands[i].categoria \in _allowed_cats_for_turma(SampleVaga(AllOf(cands), t)))

\* run_lottery on the turma's allowed candidates, slot count, percentages and seed
LotteryOfTurmaWith(t, pcts) ==
    run_lottery(AllowedOfTurma(t), vagas_por_turma[t],
                pcts["Aluno"], pcts["Servidor"], pcts["Comunidade Externa"],
                TurmaSeed(seed, t))

LotteryOfTurma(t) == LotteryOfTurmaWith(t, PctsOfTurma(t))

\* C11: for a turma with slots > 0, the result of run_lottery_per_turma is the
\* result of run_lottery on the turma's candidates of an allowed category, with
\* the turma's slot count, the percentages zeroed for the disallowed categories
\* and normalised again, and the seed derived for the turma: the same two
\* lists in the same order.
C11_GroupEqualsRunLottery ==
    (op = "run_lottery_per_turma" /\ ~ raised) =>
        \A t \in TurmaKeys :
            (t \in DOMAIN vagas_por_turma /\ vagas_por_turma[t] > 0) =>
                /\ ~ LotteryOfTurma(t).raised
                /\ results[t] = <<LotteryOfTurma(t).aprovados, LotteryOfTurma(t).espera>>

\* the winners of all categories after redistribute_shortfalls, before the truncation
WinnersOfDraw(drawn, quota) ==
    ConcatCats(redistribute_shortfalls(drawn.selected, drawn.waiting, quota).selected, 1)

WinnersOfQuota(t, quota) ==
    WinnersOfDraw(DrawAll(NewRandom(TurmaSeed(seed, t)), partition_by_category(AllowedOfTurma(t)),
                          quota, EmptyPerCat, EmptyPerCat, 1),
                  quota)

\* the list that line 313 truncates, for turma t
WinnersOfTurma(t) == WinnersOfQuota(t, compute_quota(vagas_por_turma[t], PctsOfTurma(t)))

\* C12: the truncation to the slot count is only a safeguard.  In run_lottery
\* and in every turma of run_lottery_per_turma, for every accepted input
\* (slots > 0, sum of the percentages > 0), the winners of all categories
\* after redistribute_shortfalls number at most the slot count, so that
\* "aprovados[:vagas]" never removes a candidate.
C12_TruncationRemovesNobody ==
    /\ (op = "run_lottery" /\ ~ raised /\ vagas > 0 /\ PctSum > 0) =>
           /\ Len(ConcatCats(per_cat_selected, 1)) <= vagas
           /\ aprovados = ConcatCats(per_cat_selected, 1)
    /\ (op = "run_lottery_per_turma" /\ ~ raised) =>
           \A t \in TurmaKeys :
               (t \in DOMAIN vagas_por_turma /\ vagas_por_turma[t] > 0) =>
                   /\ Len(WinnersOfTurma(t)) <= vagas_por_turma[t]
                   /\ results[t][1] = WinnersOfTurma(t)

====
